---- MODULE Spec2Model ----
(***************************************************************************)
(* Model of the video-downloader endpoint POST /api/download.              *)
(*                                                                         *)
(* Two implementations of the endpoint are modelled:                       *)
(*   "server" - the Express application (validateVideoUrl, getYouTubeInfo, *)
(*              getGenericInfo, the Instagram fallback, the error          *)
(*              translator in the route's catch block);                    *)
(*   "api"    - the YouTube-only serverless function api/download.js.      *)
(*                                                                         *)
(* A request is handled in steps; a step is the code that runs between two *)
(* awaits.  The external engines (ytdl-core, youtube-dl-exec,              *)
(* instagram-url-direct) are the environment: each await ends with the     *)
(* engine resolving to a value or rejecting with an error message, both    *)
(* drawn from finite sets.                                                 *)
(*                                                                         *)
(* JavaScript strings are TLA+ strings; optional values (undefined/null)   *)
(* are None == <<>> and Some(x) == <<x>>.                                  *)
(***************************************************************************)
EXTENDS Integers, Sequences, FiniteSets, TLC

VARIABLES
    pc,        \* where the request is: "idle", an await point, "done", or a selector state
    handler,   \* "server" | "api"
    req,       \* the request body as the platform hands it to the handler
    calls,     \* the engine calls made for this request, in order
    info,      \* the value the first engine call resolved to (None before, or if nothing)
    provErr,   \* the message an extraction engine call rejected with (None if none did)
    format,    \* the encoding picked by the format selection (None if none)
    caught,    \* getGenericInfo's caught error.message while the fallback runs
    result,    \* the adapter's return value (None if it threw)
    execResult,\* what the get-url engine call resolved to (None before, or if nothing)
    links,     \* what the Instagram routine resolved to (None before, or if nothing)
    igErr,     \* the message the Instagram routine rejected with (None if it did not)
    thrown,    \* the error.message that reached the route's catch block (None if none)
    response   \* the HTTP response (None until sent)

vars == <<pc, handler, req, calls, info, provErr, format, caught, result,
          execResult, links, igErr, thrown, response>>

---------------------------------------------------------------------------
(* Optional values and JavaScript truthiness *)

None == <<>>
Some(x) == <<x>>
IsSome(o) == o # None
Val(o) == o[1]

\* !!s for an optional string: undefined, null and "" are falsy
TruthyStr(o) == IsSome(o) /\ Val(o) # ""
\* !!n for an optional number: undefined and 0 are falsy
TruthyNum(o) == IsSome(o) /\ Val(o) # 0
\* (n || 0) for an optional number
OrZero(o) == IF TruthyNum(o) THEN Val(o) ELSE 0

---------------------------------------------------------------------------
(* String.prototype methods *)

\* the character of s at 1-based position i
CharAt(s, i) == SubSeq(s, i, i)

\* s.includes(t)
Includes(s, t) ==
    \E i \in 1..(Len(s) - Len(t) + 1) : SubSeq(s, i, i + Len(t) - 1) = t

\* s.includes(t) for some t of the set T
IncludesAny(s, T) == \E t \in T : Includes(s, t)

\* 1-based position of the first occurrence of t in s, 0 if there is none
IndexOf(s, t) ==
    IF Includes(s, t)
    THEN CHOOSE i \in 1..(Len(s) - Len(t) + 1) :
            /\ SubSeq(s, i, i + Len(t) - 1) = t
            /\ \A j \in 1..(i - 1) : SubSeq(s, j, j + Len(t) - 1) # t
    ELSE 0

\* s.replace(t, r) with a string pattern: only the first occurrence, wherever it is
ReplaceAt(s, t, r, i) ==
    IF i = 0 THEN s ELSE SubSeq(s, 1, i - 1) \o r \o SubSeq(s, i + Len(t), Len(s))

ReplaceFirst(s, t, r) == ReplaceAt(s, t, r, IndexOf(s, t))

RECURSIVE RemoveChars(_, _)
\* s with every character of the set cs removed
RemoveChars(s, cs) ==
    IF s = "" THEN ""
    ELSE (IF CharAt(s, 1) \in cs THEN "" ELSE CharAt(s, 1))
            \o RemoveChars(SubSeq(s, 2, Len(s)), cs)

\* title.replace(/[<>:"/\\|?*]+/g, '')
sanitizeTitle(t) == RemoveChars(t, {"<", ">", ":", "\"", "/", "\\", "|", "?", "*"})

Digits == {"0", "1", "2", "3", "4", "5", "6", "7", "8", "9"}
DigitVal(c) == CASE c = "0" -> 0 [] c = "1" -> 1 [] c = "2" -> 2 [] c = "3" -> 3
                 [] c = "4" -> 4 [] c = "5" -> 5 [] c = "6" -> 6 [] c = "7" -> 7
                 [] c = "8" -> 8 [] c = "9" -> 9

RECURSIVE DigitsValue(_, _)
\* the value of the leading run of digits of s, continuing from acc
DigitsValue(s, acc) ==
    IF s = "" \/ CharAt(s, 1) \notin Digits THEN acc
    ELSE DigitsValue(SubSeq(s, 2, Len(s)), 10 * acc + DigitVal(CharAt(s, 1)))

\* parseInt(o): None stands for NaN.  undefined, and a string that does not
\* start with a digit, parse to NaN; otherwise the leading digits are read.
parseInt(o) ==
    IF ~IsSome(o) \/ Val(o) = "" \/ CharAt(Val(o), 1) \notin Digits THEN None
    ELSE Some(DigitsValue(Val(o), 0))

\* s.toUpperCase() on the container names the engines report
toUpperCase(s) ==
    CASE s = "mp4" -> "MP4" [] s = "webm" -> "WEBM" [] s = "m4a" -> "M4A"
      [] OTHER -> s

---------------------------------------------------------------------------
(* URL validation *)

SchemeEnd(url) == IndexOf(url, ":")

\* validUrl.isUri(url): no illegal character, and a scheme before the first ":"
\* that holds none of "/", "?", "#"
isUriWithScheme(url, e) ==
    /\ ~Includes(url, " ")
    /\ e > 1
    /\ ~IncludesAny(SubSeq(url, 1, e - 1), {"/", "?", "#"})

isUri(url) == isUriWithScheme(url, SchemeEnd(url))

RECURSIVE HostEnd(_, _)
\* the position after the authority that starts at position i of url
HostEnd(url, i) ==
    IF i > Len(url) \/ CharAt(url, i) \in {"/", "?", "#"} THEN i
    ELSE HostEnd(url, i + 1)

\* A URL with an authority needs a host: new URL throws on an empty one
nonEmptyHost(host) == IF host = "" THEN None ELSE Some(host)

\* The hostname of url, whose scheme ends at position e (0 if there is none)
hostnameAfter(url, e) ==
    IF e <= 1 THEN None
    ELSE IF SubSeq(url, e + 1, e + 2) = "//"
    THEN nonEmptyHost(SubSeq(url, e + 3, HostEnd(url, e + 3) - 1))
    ELSE Some("")

\* new URL(url).hostname; None when the constructor throws
hostname(url) == hostnameAfter(url, SchemeEnd(url))

\* urlObj.hostname.replace('www.', ''), null if new URL threw
stripWww(h) == IF IsSome(h) THEN Some(ReplaceFirst(Val(h), "www.", "")) ELSE None

\* getDomain(url)
getDomain(url) == stripWww(hostname(url))

allowedDomains ==
    << "youtube.com", "youtu.be", "tiktok.com", "instagram.com",
       "facebook.com", "fb.watch", "twitter.com", "x.com",
       "reddit.com", "vimeo.com", "dailymotion.com", "bilibili.com",
       "twitch.tv", "vimeo.com", "soundcloud.com", "streamable.com" >>

\* allowedDomains.some(allowed => domain.includes(allowed))
isAllowed(domain) ==
    \E k \in 1..Len(allowedDomains) : Includes(domain, allowedDomains[k])

\* validateVideoUrl from `if (!domain)` on, with domain = getDomain(url)
validateDomain(domain) ==
    IF ~TruthyStr(domain)
    THEN [valid |-> FALSE, error |-> "Invalid URL", domain |-> ""]
    ELSE IF ~isAllowed(Val(domain))
    THEN [valid |-> FALSE, error |-> "Website not supported. Please check the URL.",
          domain |-> ""]
    ELSE [valid |-> TRUE, error |-> "", domain |-> Val(domain)]

\* validateVideoUrl(url): { valid, error } or { valid, domain }
validateVideoUrl(url) ==
    IF ~isUri(url)
    THEN [valid |-> FALSE, error |-> "Invalid URL format", domain |-> ""]
    ELSE validateDomain(getDomain(url))

\* domain.includes('youtube.com') || domain.includes('youtu.be')
isYouTubeDomain(domain) == Includes(domain, "youtube.com") \/ Includes(domain, "youtu.be")

---------------------------------------------------------------------------
(* formatFileSize *)

\* Math.floor(Math.log(bytes) / Math.log(1024)) for bytes >= 1
FloorLog1024(bytes) ==
    IF bytes < 1024 THEN 0
    ELSE IF bytes < 1024 * 1024 THEN 1
    ELSE IF bytes < 1024 * 1024 * 1024 THEN 2
    ELSE 3

Pow1024(i) == CASE i = 0 -> 1 [] i = 1 -> 1024 [] i = 2 -> 1024 * 1024
                [] i = 3 -> 1024 * 1024 * 1024

sizes == << "Bytes", "KB", "MB", "GB" >>

\* parseFloat(x.toFixed(2)) printed, x given in hundredths
FixedTwo(h) ==
    ToString(h \div 100) \o
        (IF h % 100 = 0 THEN ""
         ELSE IF h % 10 = 0 THEN "." \o ToString((h % 100) \div 10)
         ELSE IF h % 100 < 10 THEN ".0" \o ToString(h % 100)
         ELSE "." \o ToString(h % 100))

\* formatFileSize(bytes), 0 <= bytes < 2^30; h is bytes / 1024^i in hundredths,
\* rounded as toFixed(2) rounds
formatFileSize(bytes) ==
    IF bytes = 0 THEN "0 Bytes"
    ELSE LET i == FloorLog1024(bytes)
             k == Pow1024(i)
             h == (bytes \div k) * 100 + ((bytes % k) * 200 + k) \div (2 * k)
         IN  FixedTwo(h) \o " " \o (IF i + 1 <= Len(sizes) THEN sizes[i + 1] ELSE "undefined")

---------------------------------------------------------------------------
(* Array.prototype.sort *)

\* compare with the frame rates compared the wrong way round
compareFpsAscending(key, a, b) ==
    CASE key = "bitrate" ->
            IF IsSome(a.bitrate) /\ IsSome(b.bitrate)
            THEN Val(b.bitrate) - Val(a.bitrate) ELSE 0
      [] key = "quality" ->
            IF OrZero(parseInt(a.qualityLabel)) # OrZero(parseInt(b.qualityLabel))
            THEN OrZero(parseInt(b.qualityLabel)) - OrZero(parseInt(a.qualityLabel))
            ELSE OrZero(a.fps) - OrZero(b.fps)
      [] key = "abr" -> OrZero(b.abr) - OrZero(a.abr)
      [] key = "height" -> OrZero(b.height) - OrZero(a.height)

\* The comparators passed to sort, by the key they compare; a NaN result counts
\* as +0.  "bitrate": (a, b) => b.bitrate - a.bitrate
\*         "quality": parseInt(qualityLabel) || 0, then fps || 0, descending
\*         "abr":     (b.abr || 0) - (a.abr || 0)
\*         "height":  (b.height || 0) - (a.height || 0)
compare(key, a, b) ==
    CASE key = "bitrate" ->
            IF IsSome(a.bitrate) /\ IsSome(b.bitrate)
            THEN Val(b.bitrate) - Val(a.bitrate) ELSE 0
      [] key = "quality" ->
            LET aQuality == OrZero(parseInt(a.qualityLabel))
                bQuality == OrZero(parseInt(b.qualityLabel))
            IN  IF aQuality # bQuality THEN bQuality - aQuality
                ELSE OrZero(b.fps) - OrZero(a.fps)
      [] key = "abr" -> OrZero(b.abr) - OrZero(a.abr)
      [] key = "height" -> OrZero(b.height) - OrZero(a.height)

\* Whether the comparator is a consistent comparison function for the elements
\* of s (ECMA-262, Array.prototype.sort)
Consistent(key, s) ==
    LET E == {s[i] : i \in 1..Len(s)}
        cmp == [a \in E, b \in E |-> compare(key, a, b)]
    IN  /\ \A a \in E : cmp[a, a] = 0
        /\ \A a, b \in E :
              /\ (cmp[a, b] = 0 => cmp[b, a] = 0)
              /\ (cmp[a, b] < 0 => cmp[b, a] > 0)
        /\ \A a, b, c \in E :
              /\ (cmp[a, b] = 0 /\ cmp[b, c] = 0 => cmp[a, c] = 0)
              /\ (cmp[a, b] < 0 /\ cmp[b, c] < 0 => cmp[a, c] < 0)
              /\ (cmp[a, b] > 0 /\ cmp[b, c] > 0 => cmp[a, c] > 0)

\* e inserted into the sorted sequence s behind every element that does not
\* compare greater than it
Insert(key, s, e) ==
    LET after == {i \in 1..Len(s) : compare(key, s[i], e) > 0}
        k == IF after = {} THEN Len(s) + 1
             ELSE CHOOSE i \in after : \A j \in after : i <= j
    IN  SubSeq(s, 1, k - 1) \o <<e>> \o SubSeq(s, k, Len(s))

RECURSIVE StableSort(_, _)
\* s sorted by the comparator, equal elements in their original order
StableSort(key, s) ==
    IF s = <<>> THEN <<>>
    ELSE Insert(key, StableSort(key, SubSeq(s, 1, Len(s) - 1)), s[Len(s)])

Orderings(s) ==
    LET n == Len(s)
        bij == {f \in [1..n -> 1..n] : \A i, j \in 1..n : i # j => f[i] # f[j]}
    IN  {[i \in 1..n |-> s[f[i]]] : f \in bij}

\* The arrays s.sort(comparator) can produce: the stable sorted order for a
\* consistent comparator, an implementation-defined order otherwise
sort(key, s) ==
    IF Consistent(key, s) THEN {StableSort(key, s)} ELSE Orderings(s)

\* arr[0]
First(s) == IF Len(s) > 0 THEN Some(s[1]) ELSE None

---------------------------------------------------------------------------
(* Format selection (getYouTubeInfo, api/download.js) *)

audioOnly(formats) == SelectSeq(formats, LAMBDA f : f.hasAudio /\ ~f.hasVideo)
combined(formats) == SelectSeq(formats, LAMBDA f : f.hasVideo /\ f.hasAudio)

\* The values `format` can take after the selection, for the request's type
selectFormat(formats, type) ==
    IF type = "audio"
    THEN {First(s) : s \in sort("bitrate", audioOnly(formats))}
    ELSE {First(s) : s \in sort("quality", combined(formats))}

---------------------------------------------------------------------------
(* Adapters.  An adapter run ends in an outcome: the picked format, and either
   the returned result or the message of the error it threw. *)

Return(f, r) == [format |-> f, result |-> Some(r), thrown |-> None]
Throw(f, m) == [format |-> f, result |-> None, thrown |-> Some(m)]

\* getYouTubeInfo's try block once ytdlCore.getInfo(url) has resolved to inf,
\* with f the outcome of the format selection
youTubeTry(inf, type, f) ==
    IF ~IsSome(f) THEN Throw(f, "No suitable format found")
    ELSE IF type # "audio" /\ ~IsSome(Val(f).container)
    THEN Throw(f, "Cannot read properties of undefined (reading 'toUpperCase')")
    ELSE LET downloadUrl == Val(f).url
             contentLength == IF TruthyStr(Val(f).contentLength)
                              THEN Val(f).contentLength ELSE Some("Unknown")
         IN  Return(f, [title |-> Some(sanitizeTitle(inf.title)),
                        format |-> Some(IF type = "audio" THEN "MP3"
                                        ELSE toUpperCase(Val(Val(f).container))),
                        filesize |-> Some(formatFileSize(OrZero(parseInt(contentLength)))),
                        download_url |-> downloadUrl])

\* getYouTubeInfo's catch block: whatever was thrown, a new Error with a fixed
\* message is thrown instead
youTubeCatch(o) ==
    IF IsSome(o.thrown)
    THEN Throw(o.format, "Failed to fetch YouTube video. Make sure the video is public.")
    ELSE o

\* The outcomes of getYouTubeInfo(url, type) when getInfo resolves to inf
getYouTubeInfo(inf, type) ==
    {youTubeCatch(youTubeTry(inf, type, f)) : f \in selectFormat(inf.formats, type)}

\* type === 'audio' ? 'MP3' : 'MP4'
defaultFormat(type) == IF type = "audio" THEN "MP3" ELSE "MP4"

\* (info.title || 'video').replace(/[<>:"/\\|?*]+/g, '')
genericTitle(inf) ==
    Some(sanitizeTitle(IF TruthyStr(inf.title) THEN Val(inf.title) ELSE "video"))

\* getGenericInfo: info.formats.sort(...)[0]; both comparators are consistent
bestFormat(inf, type) ==
    (CHOOSE x \in sort(IF type = "audio" THEN "abr" ELSE "height", Val(inf.formats)) : TRUE)[1]

\* getGenericInfo: the result taken from bestFormat
genericFromBest(inf, type, best) ==
    Return(Some(best),
           [title |-> genericTitle(inf),
            format |-> Some(IF TruthyStr(best.ext) THEN toUpperCase(Val(best.ext))
                            ELSE defaultFormat(type)),
            filesize |-> Some(formatFileSize(OrZero(best.filesize))),
            download_url |-> best.url])

\* getGenericInfo from `let downloadUrl` to `if (!downloadUrl)`, inf the metadata
genericFromInfo(inf, type) ==
    IF TruthyStr(inf.url)
    THEN Return(None, [title |-> genericTitle(inf), format |-> Some(defaultFormat(type)),
                       filesize |-> Some("Unknown"), download_url |-> inf.url])
    ELSE IF IsSome(inf.formats) /\ Len(Val(inf.formats)) > 0
    THEN genericFromBest(inf, type, bestFormat(inf, type))
    ELSE Throw(None, "No download link available")

\* getGenericInfo's try block from `if (!info)` to `if (!downloadUrl)`, once the
\* dump-json engine call has resolved to o (None: nothing).  A result without
\* download_url means the get-url engine call comes next.
genericTry(o, type) ==
    IF ~IsSome(o) THEN Throw(None, "No video information found")
    ELSE genericFromInfo(Val(o), type)

\* downloadUrl = execResult, and the return statement
withExecResult(g, x) == Return(g.format, [Val(g.result) EXCEPT !.download_url = x])

\* getGenericInfo's final throw
genericRethrow(message) == "Failed to download video: " \o message

\* if (url.includes('instagram.com')) in getGenericInfo's catch block
wantsInstagramFallback(url) == Includes(url, "instagram.com")

\* links && links.url && links.url.length > 0
hasLink(l) == IsSome(l) /\ IsSome(Val(l).url) /\ Len(Val(Val(l).url)) > 0

\* The result built from the Instagram routine's links
instagramResult(l) ==
    [title |-> Some("Instagram Video"), format |-> Some("MP4"),
     filesize |-> Some("Unknown"), download_url |-> Some(Val(Val(l).url)[1])]

---------------------------------------------------------------------------
(* The route: response building and the error translator *)

ErrorResponse(status, message) ==
    [status |-> status, error |-> Some(message), title |-> None, format |-> None,
     filesize |-> None, download_url |-> None]

\* The route's catch block: error.message to the user-facing message
translate(message) ==
    IF IncludesAny(message, {"private", "unavailable"})
    THEN "Video is private or unavailable"
    ELSE IF IncludesAny(message, {"copyright", "restricted"})
    THEN "Video is copyright restricted"
    ELSE IF IncludesAny(message, {"not found", "404"})
    THEN "Video not found. Please check the URL"
    ELSE IF IncludesAny(message, {"format", "No suitable"})
    THEN "No suitable video format available"
    ELSE IF IncludesAny(message, {"rate limit", "too many"})
    THEN "Rate limit exceeded. Please try again later"
    ELSE IF IncludesAny(message, {"timeout", "time out"})
    THEN "Request timeout. Please try again"
    ELSE IF message # "" THEN message
    ELSE "An error occurred while processing your request"

\* noDownloadLink without the test of download_url
noDownloadLinkResultOnly(r) == ~IsSome(r)

\* if (!result || !result.download_url)
noDownloadLink(r) == ~IsSome(r) \/ ~TruthyStr(Val(r).download_url)

\* res.json({...}) of the route
successResponse(r, type) ==
    [status |-> 200, error |-> None,
     title |-> IF TruthyStr(r.title) THEN r.title ELSE Some("Video Download"),
     format |-> IF TruthyStr(r.format) THEN r.format
                ELSE Some(IF type = "audio" THEN "MP3" ELSE "MP4"),
     filesize |-> IF TruthyStr(r.filesize) THEN r.filesize ELSE Some("Unknown"),
     download_url |-> r.download_url]

\* The route from the adapter's outcome o to the response: the message that
\* reached the catch block (None if none) and the response sent
routeTail(o, type) ==
    LET error == IF IsSome(o.thrown) THEN o.thrown
                 ELSE IF noDownloadLink(o.result) THEN Some("No download link available")
                 ELSE None
    IN  IF IsSome(error)
        THEN [thrown |-> error, response |-> ErrorResponse(500, translate(Val(error)))]
        ELSE [thrown |-> None, response |-> successResponse(Val(o.result), type)]

\* api/download.js: the catch block's message
apiTranslate(message) ==
    IF IncludesAny(message, {"private", "unavailable"})
    THEN "Video is private or unavailable"
    ELSE IF IncludesAny(message, {"copyright", "restricted"})
    THEN "Video is restricted by copyright"
    ELSE IF Includes(message, "Invalid URL")
    THEN "Invalid YouTube URL"
    ELSE IF Includes(message, "No suitable format")
    THEN "Could not find a suitable format for this video"
    ELSE "Failed to process the video URL"

\* format.contentLength / (1024 * 1024) printed as KB or MB; n in bytes.
\* Math.round(x * 10) / 10 is printed with at most one decimal.
apiFileSize(n) ==
    IF n < 1024 * 1024
    THEN ToString((2 * n + 1024) \div 2048) \o " KB"
    ELSE LET t == (n * 20 + 1024 * 1024) \div (2 * 1024 * 1024)
         IN  ToString(t \div 10)
                \o (IF t % 10 = 0 THEN "" ELSE "." \o ToString(t % 10)) \o " MB"

\* api/download.js from the format selection to the response, once getInfo
\* has resolved to inf and the selection has picked f
apiTail(inf, type, f) ==
    IF ~IsSome(f)
    THEN [thrown |-> Some("No suitable format found for the selected type"),
          response |-> ErrorResponse(500,
                          apiTranslate("No suitable format found for the selected type"))]
    ELSE IF type # "audio" /\ ~IsSome(Val(f).container)
    THEN [thrown |-> Some("Cannot read properties of undefined (reading 'toUpperCase')"),
          response |-> ErrorResponse(500,
                          apiTranslate("Cannot read properties of undefined (reading 'toUpperCase')"))]
    ELSE [thrown |-> None,
          response |->
            [status |-> 200, error |-> None,
             title |-> Some(sanitizeTitle(inf.title)),
             format |-> Some(IF type = "audio" THEN "MP3"
                             ELSE toUpperCase(Val(Val(f).container))),
             filesize |-> Some(IF TruthyStr(Val(f).contentLength)
                               THEN apiFileSize(OrZero(parseInt(Val(f).contentLength)))
                               ELSE "Unknown"),
             download_url |-> Val(f).url]]

---------------------------------------------------------------------------
(* Inputs: requests *)

HostPrefixes == {"", "www.", "m.", "you"}
HostInfixes == {"", "www."}
HostSuffixes == {"youtube.com", "tube.com", "youtu.be", "vimeo.com", "instagram.com",
                 "example.test"}
Hosts == {a \o b \o c : a \in HostPrefixes, b \in HostInfixes, c \in HostSuffixes}
Paths == {"/v/1", "/?ref=instagram.com"}

Urls == {"https://" \o h \o p : h \in Hosts, p \in Paths}
            \cup {"", "not a url", "https://", "mailto:me"}

Types == {None, Some("video"), Some("audio"), Some("gif")}

\* req.body as the platform hands it over: no body at all, or a JSON object
Bodies == {[present |-> FALSE, url |-> None, type |-> None]}
            \cup [present : {TRUE}, url : {None} \cup {Some(u) : u \in Urls}, type : Types]

Handlers == {"server", "api"}

---------------------------------------------------------------------------
(* Inputs: what the engines answer *)

MaxFormats == 2

Encoding(a, v, br, ql, fps, c, cl, u) ==
    [hasAudio |-> a, hasVideo |-> v, bitrate |-> br, qualityLabel |-> ql, fps |-> fps,
     container |-> c, contentLength |-> cl, url |-> u]

\* Encodings ytdl-core reports
Encodings ==
    { Encoding(TRUE, FALSE, Some(128), None, None, Some("webm"), Some("1536"),
               Some("https://cdn.test/a128")),
      Encoding(TRUE, FALSE, None, None, None, Some("m4a"), None,
               Some("https://cdn.test/a")),
      Encoding(TRUE, TRUE, Some(500), Some("720p"), Some(30), Some("mp4"), Some("1572864"),
               Some("https://cdn.test/v720")),
      Encoding(TRUE, TRUE, Some(900), Some("1080p"), Some(30), Some("mp4"), None, None),
      Encoding(FALSE, TRUE, Some(900), Some("1080p60"), Some(60), Some("webm"), Some("500"),
               Some("https://cdn.test/v1080")) }

\* The sequences over S of length at most n
SeqUpTo(S, n) == UNION {[1..k -> S] : k \in 0..n}

Titles == {"How to: fix a bike?", ""}

\* What ytdlCore.getInfo(url) resolves to
YouTubeInfos == [title : Titles, formats : SeqUpTo(Encodings, MaxFormats)]

\* Messages the extraction engines reject with
ProviderErrors ==
    { "Video unavailable", "This is a private video", "Blocked on copyright grounds",
      "Status code: 404", "Requested format is not available", "rate limit reached",
      "HTTP Error 429: too many requests", "Connection timeout", "socket hang up" }

GenericFormat(abr, h, u, fs, ext) ==
    [abr |-> abr, height |-> h, url |-> u, filesize |-> fs, ext |-> ext]

GenericFormats ==
    { GenericFormat(Some(128), None, Some("https://cdn.test/g128"), Some(2048), Some("m4a")),
      GenericFormat(None, Some(720), None, None, None),
      GenericFormat(Some(96), Some(1080), Some("https://cdn.test/g1080"), Some(1572864),
                    Some("mp4")) }

\* What youtubedl(url, {dumpJson...}) resolves to: nothing, or the metadata
GenericInfos ==
    {None} \cup
    {Some(i) : i \in
        [title : {Some("Clip")}, url : {Some("https://cdn.test/direct")}, formats : {None}]
        \cup [title : {None, Some("Clip")}, url : {None},
              formats : {None} \cup {Some(l) : l \in SeqUpTo(GenericFormats, MaxFormats)}]}

\* What youtubedl(url, {getUrl...}) resolves to
ExecResults == {None, Some(""), Some("https://cdn.test/exec")}

\* What getInstagram(url) resolves to
InstagramLinks ==
    {None, Some([url |-> None]), Some([url |-> Some(<<>>)]),
     Some([url |-> Some(<<"https://ig.test/1", "https://ig.test/2">>)])}

\* Messages the Instagram routine rejects with
InstagramErrors == {"Instagram account is private"}

---------------------------------------------------------------------------
(* The request as the handlers read it *)

\* app.use(express.json()): the route always finds an object in req.body, an
\* empty one when the request carried no body
ExpressJson(b) == IF b.present THEN b ELSE [present |-> TRUE, url |-> None, type |-> None]

\* const { url, type = 'video' } = req.body
typeOf(b) == IF IsSome(b.type) THEN Val(b.type) ELSE "video"

Respond(status, message) ==
    [next |-> "respond", thrown |-> None, response |-> ErrorResponse(status, message)]
Call(adapter) == [next |-> adapter, thrown |-> None, response |-> None]

\* The route from `if (!validation.valid)` to the choice of the adapter
chooseAdapter(validation) ==
    IF ~validation.valid THEN Respond(400, validation.error)
    ELSE IF isYouTubeDomain(validation.domain) THEN Call("getYouTubeInfo")
    ELSE Call("getGenericInfo")

\* serverChecks with the type checked before the url
serverChecksTypeFirst(body) ==
    IF typeOf(body) \notin {"video", "audio"} THEN Respond(400, "Invalid download type")
    ELSE IF ~TruthyStr(body.url) THEN Respond(400, "Video URL is required")
    ELSE chooseAdapter(validateVideoUrl(Val(body.url)))

\* The route's checks on the destructured body
serverChecks(body) ==
    IF ~TruthyStr(body.url) THEN Respond(400, "Video URL is required")
    ELSE IF typeOf(body) \notin {"video", "audio"} THEN Respond(400, "Invalid download type")
    ELSE chooseAdapter(validateVideoUrl(Val(body.url)))

\* The route of the Express application up to the choice of the adapter:
\* the 400 response of the first failing check, or the adapter to call
serverStart(b) == serverChecks(ExpressJson(b))

\* api/download.js up to the call of ytdlCore.getInfo.  Nothing parses the body
\* for this function: without a body, req.body is undefined and the
\* destructuring throws inside the try block.
apiStart(b) ==
    IF ~b.present
    THEN [next |-> "respond",
          thrown |-> Some("Cannot destructure property 'url' of 'req.body' as it is undefined."),
          response |-> ErrorResponse(500, apiTranslate(
              "Cannot destructure property 'url' of 'req.body' as it is undefined."))]
    ELSE IF ~TruthyStr(b.url) THEN Respond(400, "Video URL is required")
    ELSE IF typeOf(b) \notin {"video", "audio"} THEN Respond(400, "Invalid download type")
    ELSE IF ~isUri(Val(b.url)) THEN Respond(400, "Invalid URL format")
    ELSE IF ~IncludesAny(Val(b.url), {"youtube.com", "youtu.be"})
    THEN Respond(400,
            "Currently, only YouTube videos are supported. Support for other sites coming soon.")
    ELSE Call("getInfo")

\* The url and type of the request in flight
url == Val(ExpressJson(req).url)
type == typeOf(ExpressJson(req))

---------------------------------------------------------------------------
(* Steps *)

NoRequest == [present |-> FALSE, url |-> None, type |-> None]

Init ==
    /\ pc = "idle"
    /\ handler = "server"
    /\ req = NoRequest
    /\ calls = <<>>
    /\ info = None
    /\ provErr = None
    /\ format = None
    /\ caught = None
    /\ result = None
    /\ execResult = None
    /\ links = None
    /\ igErr = None
    /\ thrown = None
    /\ response = None

\* The request ends: the adapter state, the error that reached the catch block
\* and the response sent
Finish(f, r, t, resp) ==
    /\ pc' = "done"
    /\ format' = f
    /\ result' = r
    /\ thrown' = t
    /\ response' = resp

\* The handler runs from the arrival of the request to its first await (the
\* engine call `engine`, pc = at) or to its response
Start(s, engine, at) ==
    /\ info' = None /\ provErr' = None /\ caught' = None
    /\ execResult' = None /\ links' = None /\ igErr' = None
    /\ IF s.next = "respond"
       THEN /\ calls' = <<>>
            /\ Finish(None, None, s.thrown, s.response)
       ELSE /\ calls' = <<engine[s.next]>>
            /\ pc' = at[s.next]
            /\ format' = None /\ result' = None /\ thrown' = None /\ response' = None

\* POST /api/download arrives at the Express application
PostServer(b) ==
    /\ pc = "idle"
    /\ handler' = "server"
    /\ req' = b
    /\ Start(serverStart(b),
             [getYouTubeInfo |-> "ytdlCore.getInfo", getGenericInfo |-> "youtubedl.dumpJson"],
             [getYouTubeInfo |-> "awaitGetInfo", getGenericInfo |-> "awaitDumpJson"])

\* POST arrives at api/download.js
PostApi(b) ==
    /\ pc = "idle"
    /\ handler' = "api"
    /\ req' = b
    /\ Start(apiStart(b), [getInfo |-> "ytdlCore.getInfo"], [getInfo |-> "awaitApiGetInfo"])

FinishRoute(o, t) == Finish(o.format, o.result, t.thrown, t.response)

\* The adapter ends with outcome o, and the route with its response
Route(o) == FinishRoute(o, routeTail(o, type))

\* getYouTubeInfo: ytdlCore.getInfo resolves; selection, result, response
YouTubeResolved(inf) ==
    /\ pc = "awaitGetInfo"
    /\ info' = Some(inf)
    /\ \E o \in getYouTubeInfo(inf, type) : Route(o)
    /\ UNCHANGED <<handler, req, calls, provErr, caught, execResult, links, igErr>>

\* getYouTubeInfo: ytdlCore.getInfo rejects
YouTubeRejected(m) ==
    /\ pc = "awaitGetInfo"
    /\ provErr' = Some(m)
    /\ Route(youTubeCatch(Throw(None, m)))
    /\ UNCHANGED <<handler, req, calls, info, caught, execResult, links, igErr>>

FinishApi(f, t) == Finish(f, None, t.thrown, t.response)

\* api/download.js: ytdlCore.getInfo resolves
ApiResolved(inf) ==
    /\ pc = "awaitApiGetInfo"
    /\ info' = Some(inf)
    /\ \E f \in selectFormat(inf.formats, typeOf(req)) :
          FinishApi(f, apiTail(inf, typeOf(req), f))
    /\ UNCHANGED <<handler, req, calls, provErr, caught, execResult, links, igErr>>

\* api/download.js: ytdlCore.getInfo rejects
ApiRejected(m) ==
    /\ pc = "awaitApiGetInfo"
    /\ provErr' = Some(m)
    /\ Finish(None, None, Some(m), ErrorResponse(500, apiTranslate(m)))
    /\ UNCHANGED <<handler, req, calls, info, caught, execResult, links, igErr>>

\* getGenericInfo's catch block with error.message = m: the Instagram routine
\* is called, or the error is rethrown to the route
GenericCatch(f, m) ==
    /\ caught' = Some(m)
    /\ IF wantsInstagramFallback(url)
       THEN /\ pc' = "awaitInstagram"
            /\ calls' = Append(calls, "getInstagram")
            /\ format' = f
            /\ UNCHANGED <<result, thrown, response>>
       ELSE /\ Route(Throw(f, genericRethrow(m)))
            /\ UNCHANGED calls

\* getGenericInfo after the dump-json engine call, g the outcome of the try
\* block so far
GenericContinue(g) ==
    IF IsSome(g.thrown)
    THEN GenericCatch(g.format, Val(g.thrown))
    ELSE IF ~TruthyStr(Val(g.result).download_url)
    THEN /\ pc' = "awaitGetUrl"
         /\ calls' = Append(calls, "youtubedl.getUrl")
         /\ format' = g.format
         /\ UNCHANGED <<caught, result, thrown, response>>
    ELSE /\ Route(g)
         /\ UNCHANGED <<caught, calls>>

\* getGenericInfo: the dump-json engine call resolves
GenericResolved(o) ==
    /\ pc = "awaitDumpJson"
    /\ info' = o
    /\ GenericContinue(genericTry(o, type))
    /\ UNCHANGED <<handler, req, provErr, execResult, links, igErr>>

\* getGenericInfo: the dump-json engine call rejects
GenericRejected(m) ==
    /\ pc = "awaitDumpJson"
    /\ provErr' = Some(m)
    /\ GenericCatch(None, m)
    /\ UNCHANGED <<handler, req, info, execResult, links, igErr>>

\* getGenericInfo: the get-url engine call resolves; downloadUrl = execResult
GetUrlResolved(x) ==
    /\ pc = "awaitGetUrl"
    /\ execResult' = x
    /\ Route(withExecResult(genericTry(info, type), x))
    /\ UNCHANGED <<handler, req, calls, info, provErr, caught, links, igErr>>

\* getGenericInfo: the get-url engine call rejects
GetUrlRejected(m) ==
    /\ pc = "awaitGetUrl"
    /\ provErr' = Some(m)
    /\ GenericCatch(format, m)
    /\ UNCHANGED <<handler, req, info, execResult, links, igErr>>

\* The Instagram fallback: getInstagram resolves
InstagramResolved(l) ==
    /\ pc = "awaitInstagram"
    /\ links' = l
    /\ Route(IF hasLink(l) THEN Return(format, instagramResult(l))
             ELSE Throw(format, genericRethrow(Val(caught))))
    /\ UNCHANGED <<handler, req, calls, info, provErr, caught, execResult, igErr>>

\* The Instagram fallback: getInstagram rejects; the failure is only logged
InstagramRejected(m) ==
    /\ pc = "awaitInstagram"
    /\ igErr' = Some(m)
    /\ Route(Throw(format, genericRethrow(Val(caught))))
    /\ UNCHANGED <<handler, req, calls, info, provErr, caught, execResult, links>>

Next ==
    \/ \E b \in Bodies : PostServer(b)
    \/ \E b \in Bodies : PostApi(b)
    \/ \E inf \in YouTubeInfos : YouTubeResolved(inf)
    \/ \E m \in ProviderErrors : YouTubeRejected(m)
    \/ \E inf \in YouTubeInfos : ApiResolved(inf)
    \/ \E m \in ProviderErrors : ApiRejected(m)
    \/ \E o \in GenericInfos : GenericResolved(o)
    \/ \E m \in ProviderErrors : GenericRejected(m)
    \/ \E x \in ExecResults : GetUrlResolved(x)
    \/ \E m \in ProviderErrors : GetUrlRejected(m)
    \/ \E l \in InstagramLinks : InstagramResolved(l)
    \/ \E m \in InstagramErrors : InstagramRejected(m)

Spec == Init /\ [][Next]_vars

---------------------------------------------------------------------------
(* The format selection on its own: every list of encodings up to MaxSelect *)

MaxSelect == 3

\* Encodings for the audio selection: audio-only ones with every bitrate
\* (none, 128, 256) under two urls, a combined one and a video-only one
AudioCandidates ==
    { Encoding(TRUE, FALSE, br, None, None, Some("webm"), None, Some(u)) :
        br \in {None, Some(128), Some(256)}, u \in {"https://cdn.test/1", "https://cdn.test/2"} }
    \cup { Encoding(TRUE, TRUE, Some(256), Some("720p"), Some(30), Some("mp4"), None,
                    Some("https://cdn.test/3")),
           Encoding(FALSE, TRUE, Some(256), Some("720p"), Some(30), Some("mp4"), None,
                    Some("https://cdn.test/4")) }

\* Encodings for the video selection: combined ones with every quality label
\* (none, unparseable, 720p, 1080p) and fps (none, 30, 60), a video-only one
\* and an audio-only one
VideoCandidates ==
    { Encoding(TRUE, TRUE, None, ql, fps, Some("mp4"), None, Some("https://cdn.test/1")) :
        ql \in {None, Some("hd"), Some("720p"), Some("1080p")},
        fps \in {None, Some(30), Some(60)} }
    \cup { Encoding(FALSE, TRUE, None, Some("2160p"), Some(60), Some("webm"), None,
                    Some("https://cdn.test/2")),
           Encoding(TRUE, FALSE, Some(128), None, None, Some("webm"), None,
                    Some("https://cdn.test/3")) }

SelectInit ==
    /\ pc = "select"
    /\ handler \in Handlers
    /\ \E t \in {"audio", "video"} :
          /\ req = [present |-> TRUE, url |-> Some("https://www.youtube.com/v/1"),
                    type |-> Some(t)]
          /\ \E l \in SeqUpTo(IF t = "audio" THEN AudioCandidates ELSE VideoCandidates,
                              MaxSelect) :
                info = Some([title |-> "", formats |-> l])
    /\ calls = <<"ytdlCore.getInfo">>
    /\ provErr = None
    /\ format = None
    /\ caught = None
    /\ result = None
    /\ execResult = None
    /\ links = None
    /\ igErr = None
    /\ thrown = None
    /\ response = None

\* info.formats.filter(...).sort(...)[0]
Select ==
    /\ pc = "select"
    /\ pc' = "selected"
    /\ format' \in selectFormat(Val(info).formats, type)
    /\ UNCHANGED <<handler, req, calls, info, provErr, caught, result, execResult, links,
                   igErr, thrown, response>>

SelectNext == Select

SelectSpec == SelectInit /\ [][SelectNext]_vars

---------------------------------------------------------------------------
(* Properties *)

Done == pc = "done"
Status == response.status
ErrorText == Val(response.error)

\* The request carries no url: no body, no url field, or an empty url
UrlMissing == ~req.present \/ ~TruthyStr(req.url)

\* C1: every POST whose url is missing (absent, empty, or no body at all) is
\* answered 400 with an error that mentions "required", whatever its type.
C1_MissingUrlIs400 ==
    (Done /\ UrlMissing) => (Status = 400 /\ Includes(ErrorText, "required"))

\* The tokens of the allow-list
AllowListTokens ==
    { "youtube.com", "youtu.be", "tiktok.com", "instagram.com", "facebook.com",
      "fb.watch", "twitter.com", "x.com", "reddit.com", "vimeo.com", "dailymotion.com",
      "bilibili.com", "twitch.tv", "soundcloud.com", "streamable.com" }

\* The request passed the checks that come before the allow-list: it has a url
\* and a valid type, the url is a URI and has a hostname
ReachesAllowList ==
    /\ ~UrlMissing
    /\ type \in {"video", "audio"}
    /\ isUri(url)
    /\ TruthyStr(hostname(url))
    /\ Val(hostname(url)) # "www."

\* C2: a well-formed URL whose hostname contains no allow-listed token is
\* answered 400 "Website not supported. Please check the URL."; stripping the
\* leading "www." never makes such a hostname match.
C2_UnsupportedHostIs400 ==
    (/\ handler = "server" /\ pc # "idle" /\ pc # "select" /\ pc # "selected"
     /\ ReachesAllowList
     /\ ~IncludesAny(Val(hostname(url)), AllowListTokens))
    => (/\ Done
        /\ Status = 400
        /\ ErrorText = "Website not supported. Please check the URL."
        /\ ~IncludesAny(Val(getDomain(url)), AllowListTokens))

\* The set of a sequence's elements
Range(s) == {s[i] : i \in 1..Len(s)}

\* bitrate, a missing one counted as 0
BitrateOf(f) == IF IsSome(f.bitrate) THEN Val(f.bitrate) ELSE 0

\* C3: the audio selection picks an audio-only encoding whose bitrate (missing
\* counted as 0) is the maximum over the audio-only encodings of the list, and
\* the first such encoding in input order; it picks nothing only when the list
\* has no audio-only encoding.
C3_AudioPicksFirstMaxBitrate ==
    (pc = "selected" /\ type = "audio") =>
        LET formats == Val(info).formats
            audio == {i \in 1..Len(formats) : formats[i].hasAudio /\ ~formats[i].hasVideo}
        IN  IF audio = {} THEN format = None
            ELSE \E i \in audio :
                    /\ format = Some(formats[i])
                    /\ \A j \in audio : BitrateOf(formats[j]) <= BitrateOf(formats[i])
                    /\ \A j \in audio : j < i => BitrateOf(formats[j]) < BitrateOf(formats[i])

\* The numeric quality label: the leading digits, 0 when missing or unparseable
QualityOf(f) == IF IsSome(f.qualityLabel) THEN DigitsValue(Val(f.qualityLabel), 0) ELSE 0
\* fps, a missing one counted as 0
FpsOf(f) == IF IsSome(f.fps) THEN Val(f.fps) ELSE 0

\* C4: the video selection picks an encoding with both audio and video whose
\* quality is the maximum over the combined encodings and whose fps is the
\* maximum among those of maximum quality; an encoding without audio or without
\* video is never picked, and nothing is picked only when none is combined.
C4_VideoPicksBestCombined ==
    (pc = "selected" /\ type = "video") =>
        LET both == {f \in Range(Val(info).formats) : f.hasAudio /\ f.hasVideo}
        IN  IF both = {} THEN format = None
            ELSE /\ IsSome(format)
                 /\ Val(format) \in both
                 /\ \A f \in both : QualityOf(f) <= QualityOf(Val(format))
                 /\ \A f \in both : QualityOf(f) = QualityOf(Val(format))
                                        => FpsOf(f) <= FpsOf(Val(format))

\* C4 witness: a list of three with two combined encodings of the same top
\* quality and different fps after a lower one, and a video-only encoding of
\* higher quality; the 60 fps one was picked.
C4_Witness ==
    /\ pc = "selected" /\ type = "video"
    /\ Len(Val(info).formats) = 3
    /\ \E i, j, k \in 1..3 :
          LET fs == Val(info).formats
          IN  /\ i < j
              /\ fs[i].hasAudio /\ fs[i].hasVideo /\ fs[j].hasAudio /\ fs[j].hasVideo
              /\ QualityOf(fs[i]) = 1080 /\ QualityOf(fs[j]) = 1080
              /\ FpsOf(fs[i]) = 30 /\ FpsOf(fs[j]) = 60
              /\ ~fs[k].hasAudio /\ QualityOf(fs[k]) = 2160
              /\ format = Some(fs[j])

\* The request went to the YouTube adapter and ytdl-core answered with a list
\* of encodings none of which is of the kind the request's type needs
NoMatchingEncoding ==
    /\ calls = <<"ytdlCore.getInfo">> /\ IsSome(info)
    /\ Val(info).formats # <<>>
    /\ \A f \in Range(Val(info).formats) :
          IF type = "audio" THEN ~(f.hasAudio /\ ~f.hasVideo) ELSE ~(f.hasAudio /\ f.hasVideo)

\* The user-facing messages of the category NoSuitableFormat
NoSuitableFormatMessages ==
    {"No suitable video format available", "Could not find a suitable format for this video"}

\* C5: when the YouTube provider's list holds no encoding that matches the
\* requested type, the request ends 500 with the NoSuitableFormat message.
C5_NoMatchIsNoSuitableFormat ==
    (Done /\ NoMatchingEncoding) =>
        (Status = 500 /\ ErrorText \in NoSuitableFormatMessages)

\* The user-facing message of the category the claim assigns to a provider
\* message, None for ProcessingFailed
CategoryOf(m) ==
    IF Includes(m, "private") \/ Includes(m, "unavailable")
    THEN Some("Video is private or unavailable")
    ELSE IF Includes(m, "copyright") \/ Includes(m, "restricted")
    THEN Some("Video is copyright restricted")
    ELSE IF Includes(m, "not found") \/ Includes(m, "404")
    THEN Some("Video not found. Please check the URL")
    ELSE IF Includes(m, "format") THEN Some("No suitable video format available")
    ELSE IF Includes(m, "rate limit") THEN Some("Rate limit exceeded. Please try again later")
    ELSE IF Includes(m, "timeout") THEN Some("Request timeout. Please try again")
    ELSE None

\* C6: a provider failure is answered 500 with the category its underlying
\* message maps to by first match (private/unavailable, copyright/restricted,
\* not found/404, format, rate limit, timeout), else ProcessingFailed carrying
\* the original message; on the YouTube path as on the Generic path.
C6_ProviderFailureCategory ==
    (Done /\ handler = "server" /\ IsSome(provErr) /\ ~hasLink(links)) =>
        /\ Status = 500
        /\ IF IsSome(CategoryOf(Val(provErr)))
           THEN ErrorText = Val(CategoryOf(Val(provErr)))
           ELSE Includes(ErrorText, Val(provErr))

\* How often the Instagram routine was called for the request
FallbackCalls == Cardinality({i \in 1..Len(calls) : calls[i] = "getInstagram"})

\* C7: the Instagram fallback is called at most once per request, only after
\* the generic engine was called and the Generic Adapter failed, and only for
\* a URL of the Instagram platform; its success gives title "Instagram Video",
\* format "MP4", filesize "Unknown" and the first link; when it throws or gives
\* no link, the error at the route carries the Generic Adapter's original
\* message and not the fallback's.
C7_FallbackChain ==
    /\ FallbackCalls <= 1
    /\ FallbackCalls = 1 =>
          /\ handler = "server"
          /\ calls[1] = "youtubedl.dumpJson"
          /\ calls[Len(calls)] = "getInstagram"
          /\ IsSome(caught)
          /\ Includes(Val(hostname(url)), "instagram.com")
    /\ (Done /\ FallbackCalls = 1 /\ hasLink(links)) =>
          result = Some([title |-> Some("Instagram Video"), format |-> Some("MP4"),
                         filesize |-> Some("Unknown"),
                         download_url |-> Some(Val(Val(links).url)[1])])
    /\ (Done /\ FallbackCalls = 1 /\ ~hasLink(links)) =>
          /\ thrown = Some("Failed to download video: " \o Val(caught))
          /\ IsSome(igErr) => ~Includes(Val(thrown), Val(igErr))

\* The response carries none of the success fields
NoPayload ==
    /\ response.title = None /\ response.format = None
    /\ response.filesize = None /\ response.download_url = None

\* C8: a 200 response carries a non-empty download_url with title, format and
\* filesize; when the adapter returns a result without a non-empty
\* download_url the request ends 500 "No download link available"; a response
\* that is not 200 carries no part of a result.
C8_SuccessHasDownloadUrl ==
    (Done /\ handler = "server") =>
        /\ Status = 200 =>
              /\ TruthyStr(response.download_url) /\ TruthyStr(response.title)
              /\ TruthyStr(response.format) /\ TruthyStr(response.filesize)
              /\ response.error = None
        /\ (IsSome(result) /\ ~TruthyStr(Val(result).download_url)) =>
              (Status = 500 /\ ErrorText = "No download link available")
        /\ Status # 200 => (NoPayload /\ IsSome(response.error))

\* C8 witness: the picked candidate had no url and the get-url engine call
\* returned nothing usable, and the request ended 500
C8_Witness ==
    /\ Done /\ handler = "server"
    /\ calls = <<"youtubedl.dumpJson", "youtubedl.getUrl">>
    /\ IsSome(format) /\ ~TruthyStr(Val(format).url)
    /\ ~TruthyStr(execResult)
    /\ IsSome(result)
    /\ Status = 500

\* A size as formatFileSize prints it: a number and one of the four units
HumanReadable(size) ==
    \E unit \in {" Bytes", " KB", " MB", " GB"} :
        /\ Len(size) > Len(unit)
        /\ SubSeq(size, Len(size) - Len(unit) + 1, Len(size)) = unit
        /\ CharAt(size, 1) \in Digits

\* C9: when the encoding the YouTube Adapter selected has no content length,
\* the filesize of its result and of the 200 response is "Unknown"; when it has
\* one, the filesize is a human-readable size.
C9_FilesizeUnknownWithoutLength ==
    (Done /\ handler = "server" /\ calls = <<"ytdlCore.getInfo">>
        /\ IsSome(format) /\ IsSome(result)) =>
        IF TruthyStr(Val(format).contentLength)
        THEN /\ HumanReadable(Val(Val(result).filesize))
             /\ Status = 200 => response.filesize = Val(result).filesize
        ELSE /\ Val(result).filesize = Some("Unknown")
             /\ Status = 200 => response.filesize = Some("Unknown")

\* The message of the first check the request fails, in the order missing url,
\* invalid type, malformed URI, unparsable hostname, unsupported domain; None
\* when it passes them all.  The domain is the validated one, getDomain(url).
FirstFailedCheck ==
    IF UrlMissing THEN Some("Video URL is required")
    ELSE IF ~(IsSome(req.type) => Val(req.type) \in {"video", "audio"})
    THEN Some("Invalid download type")
    ELSE IF ~isUri(url) THEN Some("Invalid URL format")
    ELSE IF ~TruthyStr(getDomain(url)) THEN Some("Invalid URL")
    ELSE IF ~IncludesAny(Val(getDomain(url)), AllowListTokens)
    THEN Some("Website not supported. Please check the URL.")
    ELSE None

\* C10: the checks run in the order missing url, invalid type, malformed URI,
\* unparsable hostname, unsupported domain; the first one that fails ends the
\* request with 400 and no adapter is called; an adapter is called only when
\* all pass, the YouTube Adapter exactly when the validated domain contains
\* youtube.com or youtu.be, the Generic Adapter (and only it the fallback)
\* otherwise.
C10_ValidationGatesDispatch ==
    (handler = "server" /\ pc \notin {"idle", "select", "selected"}) =>
        IF IsSome(FirstFailedCheck)
        THEN Done /\ Status = 400 /\ response.error = FirstFailedCheck /\ calls = <<>>
        ELSE /\ calls # <<>>
             /\ Done => Status # 400
             /\ IF Includes(Val(getDomain(url)), "youtube.com")
                    \/ Includes(Val(getDomain(url)), "youtu.be")
                THEN calls = <<"ytdlCore.getInfo">>
                ELSE calls[1] = "youtubedl.dumpJson" /\ "ytdlCore.getInfo" \notin Range(calls)

\* C10 witness: a supported YouTube URL sent with an invalid type was refused
\* 400 before any adapter ran
C10_Witness ==
    /\ Done /\ handler = "server"
    /\ ~UrlMissing /\ req.type = Some("gif")
    /\ validateVideoUrl(url).valid /\ isYouTubeDomain(validateVideoUrl(url).domain)
    /\ Status = 400 /\ ErrorText = "Invalid download type"
    /\ calls = <<>>

====
